---- MODULE Spec2Model ----
(***************************************************************************)
(* A model of the MRS3 front end: the polygon drawer                       *)
(* (components/polygon-drawer.tsx), the upload widget                      *)
(* (components/file-upload.tsx), the compress page (DownscalePage) and the *)
(* restore page (RestorePage).                                             *)
(*                                                                         *)
(* Every event handler runs to completion before the next event is         *)
(* dispatched (one thread, React flushes the state updates of a discrete   *)
(* event before the next one), so a handler is one action.  An async       *)
(* handler is one action up to its first await and one action per          *)
(* continuation.                                                           *)
(***************************************************************************)
EXTENDS Integers, Sequences, FiniteSets, TLC

VARIABLES
    route,              \* the mounted page: "/", "/downscale" or "/restore"
    fileUpload,         \* state of the mounted FileUpload: [error]
    downscale,          \* state of DownscalePage
    restore,            \* state of RestorePage
    currentPoints,      \* PolygonDrawer: points of the polygon being drawn
    completedPolygons,  \* PolygonDrawer: the completed polygons
    imageLoaded,        \* PolygonDrawer: the image's load event was handled
    canvas,             \* the canvas element's internal resolution
    rect,               \* the canvas element's bounding client rectangle
    requests,           \* async submit handlers of the mounted page not yet settled
    unhandled,          \* an exception escaped a submit handler
    objectURLs,         \* object URLs the mounted page created and did not revoke
    notified,           \* onPolygonComplete payloads of the last handler, in call order
    lastEvent           \* the last event handled, with its inputs

vars == <<route, fileUpload, downscale, restore, currentPoints, completedPolygons,
          imageLoaded, canvas, rect, requests, unhandled, objectURLs, notified,
          lastEvent>>

drawerVars == <<currentPoints, completedPolygons, imageLoaded, canvas, rect>>

-----------------------------------------------------------------------------
(* Bounds of the model *)

\* points held by the drawer (current and completed together)
MaxTotalPoints == 9

\* points held by the drawer where the pages' requests are explored too
MaxPagePoints == 4

\* submit handlers of one page running at the same time
MaxRequests == 2

\* points held by the drawer where the canvas's layout changes
MaxCanvasPoints == 2

-----------------------------------------------------------------------------
(* Values *)

\* T | null is a sequence of length at most one
None == <<>>
Some(v) == <<v>>
IsSome(o) == Len(o) = 1
Get(o) == o[1]

\* text that is inspected (file names, MIME types, accept patterns) is a
\* sequence of characters
EndsWith(s, suffix) ==
    /\ Len(suffix) <= Len(s)
    /\ SubSeq(s, Len(s) - Len(suffix) + 1, Len(s)) = suffix

StartsWith(s, prefix) ==
    /\ Len(prefix) <= Len(s)
    /\ SubSeq(s, 1, Len(prefix)) = prefix

RECURSIVE GCD(_, _)
GCD(a, b) == IF b = 0 THEN a ELSE GCD(b, a % b)

Abs(n) == IF n < 0 THEN -n ELSE n

\* a JavaScript number that is the quotient of two integers, d > 0, kept exact
\* and in lowest terms (the rounding error of the floating-point division is
\* left out)
Frac(n, d) ==
    LET g == GCD(Abs(n), d)
    IN  [n |-> n \div g, d |-> d \div g]

\* a rounding towards minus infinity
MathFloor(x) == x.n \div x.d

\* Math.round: the integer nearest to x, halves rounded towards +Infinity
MathRound(x) == (2 * x.n + x.d) \div (2 * x.d)

-----------------------------------------------------------------------------
(* PolygonDrawer *)

\* the canvas element before the image's load event: the HTML default
DefaultCanvas == [width |-> 300, height |-> 150]
DefaultRect == [left |-> 0, top |-> 0, width |-> 300, height |-> 150]

\* the natural size of the uploaded image and the rectangle the layout gives
\* the canvas once it has that resolution
NaturalSize == [width |-> 6, height |-> 3]
LoadedRect == [left |-> 2, top |-> 1, width |-> 4, height |-> 2]

\* viewport positions of the mouse clicks
ClickPositions == {[clientX |-> 3, clientY |-> 2], [clientX |-> 5, clientY |-> 3]}
PageClickPositions == {[clientX |-> 3, clientY |-> 2]}

Keys == {"Enter", "Escape"}

TotalPoints ==
    LET RECURSIVE Sum(_)
        Sum(polys) == IF polys = <<>> THEN 0 ELSE Len(Head(polys)) + Sum(Tail(polys))
    IN  Len(currentPoints) + Sum(completedPolygons)

\* a click that scales by the ratio of the rectangle the canvas had when the
\* image loaded
ClickPointCached(e, cv, r) ==
    [x |-> Frac((e.clientX - r.left) * cv.width, LoadedRect.width),
     y |-> Frac((e.clientY - r.top) * cv.height, LoadedRect.height)]

\* handleCanvasClick: the point a click adds
ClickPoint(e, cv, r) ==
    [x |-> Frac((e.clientX - r.left) * cv.width, r.width),
     y |-> Frac((e.clientY - r.top) * cv.height, r.height)]

\* a click that puts the new point first
handleCanvasClickPrepend(prev, e, cv, r) == <<ClickPoint(e, cv, r)>> \o prev

handleCanvasClick(prev, e, cv, r) == Append(prev, ClickPoint(e, cv, r))

\* a completion that accepts a polygon of two points
completeCurrentPolygonMin2(cur, comp) ==
    IF Len(cur) >= 2
    THEN [currentPoints |-> <<>>, completedPolygons |-> Append(comp, cur),
          calls |-> <<Append(comp, cur)>>]
    ELSE [currentPoints |-> cur, completedPolygons |-> comp, calls |-> <<>>]

\* a completion that does not notify the consumer
completeCurrentPolygonSilent(cur, comp) ==
    IF Len(cur) >= 3
    THEN [currentPoints |-> <<>>, completedPolygons |-> Append(comp, cur),
          calls |-> <<>>]
    ELSE [currentPoints |-> cur, completedPolygons |-> comp, calls |-> <<>>]

\* a completion that puts the new polygon first
completeCurrentPolygonPrepend(cur, comp) ==
    IF Len(cur) >= 3
    THEN [currentPoints |-> <<>>, completedPolygons |-> <<cur>> \o comp,
          calls |-> <<(<<cur>> \o comp)>>]
    ELSE [currentPoints |-> cur, completedPolygons |-> comp, calls |-> <<>>]

\* completeCurrentPolygon: the drawer's state after the call and the
\* onPolygonComplete calls it makes
completeCurrentPolygon(cur, comp) ==
    IF Len(cur) >= 3
    THEN [currentPoints |-> <<>>, completedPolygons |-> Append(comp, cur),
          calls |-> <<Append(comp, cur)>>]
    ELSE [currentPoints |-> cur, completedPolygons |-> comp, calls |-> <<>>]

\* a key handler that completes on every key
handleKeyPressAnyKey(key, cur, comp) == completeCurrentPolygon(cur, comp)

\* handleKeyPress
handleKeyPress(key, cur, comp) ==
    IF key = "Enter" /\ Len(cur) >= 3
    THEN completeCurrentPolygon(cur, comp)
    ELSE [currentPoints |-> cur, completedPolygons |-> comp, calls |-> <<>>]

\* a reset that keeps the polygon being drawn
resetAllPolygonsKeepCurrent(cur, comp) ==
    [currentPoints |-> cur, completedPolygons |-> <<>>, calls |-> << <<>> >>]

\* resetAllPolygons
resetAllPolygons(cur, comp) ==
    [currentPoints |-> <<>>, completedPolygons |-> <<>>, calls |-> << <<>> >>]

\* an undo that removes the first point
undoLastPointFirst(prev) == IF prev = <<>> THEN <<>> ELSE Tail(prev)

\* undoLastPoint: prev.slice(0, -1)
undoLastPoint(prev) == IF prev = <<>> THEN <<>> ELSE SubSeq(prev, 1, Len(prev) - 1)

-----------------------------------------------------------------------------------------------------------------------------------------------------
(* Numbers as text *)

Digits == <<"0", "1", "2", "3", "4", "5", "6", "7", "8", "9">>

DigitValue(c) == CHOOSE v \in 0..9 : Digits[v + 1] = c

\* Number.prototype.toString of an integer
RECURSIVE NatToString(_)
NatToString(n) ==
    IF n < 10 THEN <<Digits[n + 1]>>
    ELSE NatToString(n \div 10) \o <<Digits[(n % 10) + 1]>>

NumberToString(n) == IF n < 0 THEN <<"-">> \o NatToString(-n) ELSE NatToString(n)

\* parseInt of an optional sign followed by decimal digits
RECURSIVE ParseNat(_, _)
ParseNat(s, acc) ==
    IF s = <<>> THEN acc ELSE ParseNat(Tail(s), 10 * acc + DigitValue(Head(s)))

ParseInt(s) == IF Head(s) = "-" THEN -ParseNat(Tail(s), 0) ELSE ParseNat(s, 0)

-----------------------------------------------------------------------------
(* FileUpload (components/file-upload.tsx) *)

DEFAULT_ACCEPT == <<"i", "m", "a", "g", "e", "/", "*">>
DEFAULT_MAX_SIZE == 10485760
PkgAccept == <<".", "p", "k", "g">>

ImageFile == [name |-> <<"a", ".", "j", "p", "g">>,
              type |-> <<"i", "m", "a", "g", "e", "/", "j", "p", "e", "g">>,
              size |-> 2097152]
ImageFileB == [name |-> <<"b", ".", "p", "n", "g">>,
               type |-> <<"i", "m", "a", "g", "e", "/", "p", "n", "g">>,
               size |-> 1024]
TextFile == [name |-> <<"a", ".", "t", "x", "t">>,
             type |-> <<"t", "e", "x", "t", "/", "p", "l", "a", "i", "n">>,
             size |-> 1024]
PkgFileA == [name |-> <<"a", ".", "p", "k", "g">>, type |-> <<>>, size |-> DEFAULT_MAX_SIZE]
PkgFileB == [name |-> <<"b", ".", "p", "k", "g">>, type |-> <<>>, size |-> 1024]
BigPkgFile == [name |-> <<"c", ".", "p", "k", "g">>, type |-> <<>>,
               size |-> DEFAULT_MAX_SIZE + 1]

\* the files a user drops or browses
Files == {ImageFile, TextFile, PkgFileA, PkgFileB, BigPkgFile}

ImageOnlyMessage == "Only image files can be uploaded."
PkgOnlyMessage == "Only .pkg files can be uploaded."
TooLargeMessage == "The file is too large."

\* a validator that looks at the size first
validateFileSizeFirst(file, accept, maxSize) ==
    IF file.size > maxSize
    THEN Some(TooLargeMessage)
    ELSE IF accept = DEFAULT_ACCEPT /\ ~StartsWith(file.type, <<"i", "m", "a", "g", "e", "/">>)
    THEN Some(ImageOnlyMessage)
    ELSE IF accept = PkgAccept /\ ~EndsWith(file.name, <<".", "p", "k", "g">>)
    THEN Some(PkgOnlyMessage)
    ELSE None

\* a validator that refuses a file of exactly the largest size
validateFileBelowMax(file, accept, maxSize) ==
    IF accept = DEFAULT_ACCEPT /\ ~StartsWith(file.type, <<"i", "m", "a", "g", "e", "/">>)
    THEN Some(ImageOnlyMessage)
    ELSE IF accept = PkgAccept /\ ~EndsWith(file.name, <<".", "p", "k", "g">>)
    THEN Some(PkgOnlyMessage)
    ELSE IF file.size >= maxSize
    THEN Some(TooLargeMessage)
    ELSE None

\* validateFile: the message of the failing check, or null
validateFile(file, accept, maxSize) ==
    IF accept = DEFAULT_ACCEPT /\ ~StartsWith(file.type, <<"i", "m", "a", "g", "e", "/">>)
    THEN Some(ImageOnlyMessage)
    ELSE IF accept = PkgAccept /\ ~EndsWith(file.name, <<".", "p", "k", "g">>)
    THEN Some(PkgOnlyMessage)
    ELSE IF file.size > maxSize
    THEN Some(TooLargeMessage)
    ELSE None

-----------------------------------------------------------------------------
(* The backend's answers *)

\* bodies of a non-success response.  json is what response.json() gives:
\* "object" (a JSON object, with or without a detail member), "null" (the
\* JSON text null) or "syntaxError" (the body is not JSON).  A detail is
\* given by whether it is a string and by String(detail).
DetailText == [isString |-> TRUE, text |-> "model unavailable"]
DetailEmpty == [isString |-> TRUE, text |-> ""]
DetailArray == [isString |-> FALSE, text |-> "[object Object]"]

ErrorBodies ==
    {[json |-> "object", detail |-> Some(DetailText)],
     [json |-> "object", detail |-> Some(DetailEmpty)],
     [json |-> "object", detail |-> Some(DetailArray)],
     [json |-> "object", detail |-> None],
     [json |-> "null", detail |-> None],
     [json |-> "syntaxError", detail |-> None]}

\* what a rejected promise carries: an Error object with its message, or a
\* value that is no Error
NetworkError == [isError |-> TRUE, message |-> "Failed to fetch"]
JsonSyntaxError == [isError |-> TRUE, message |-> "Unexpected token < in JSON at position 0"]
NullTypeError == [isError |-> TRUE, message |-> "Cannot read properties of null (reading 'detail')"]
NotAnError == [isError |-> FALSE, message |-> "aborted"]

FetchRejections == {NetworkError, NotAnError}

\* the body of the success response to a request: the backend's result for
\* the form it was sent
ResultBlob(form) == [resultOf |-> form]

\* JavaScript truthiness of a detail member
Truthy(detail) == IsSome(detail) /\ (Get(detail).isString => Get(detail).text # "")

\* the outcome of `await response.json()` followed by
\* `throw new Error(errorData.detail || fallback)`: the value thrown
ThrownOnErrorResponse(body, fallback) ==
    IF body.json = "syntaxError" THEN JsonSyntaxError
    ELSE IF body.json = "null" THEN NullTypeError
    ELSE [isError |-> TRUE,
          message |-> IF Truthy(body.detail) THEN Get(body.detail).text ELSE fallback]

UnknownErrorMessage == "An unknown error occurred."

-----------------------------------------------------------------------------
(* Object URLs.  A page makes one by URL.createObjectURL for the image it   *)
(* previews and for each result it receives; a URL stays live until          *)
(* URL.revokeObjectURL is called for it, which no page does.  Of the live   *)
(* URLs a mounted page made, the model keeps for each kind whether there is *)
(* none, one or several.                                                    *)

NoObjectURLs == [preview |-> "none", result |-> "none"]

\* URL.createObjectURL
createObjectURL(live, kind) ==
    [live EXCEPT ![kind] = IF @ = "none" THEN "one" ELSE "several"]

-----------------------------------------------------------------------------
(* DownscalePage *)

SCALER_OPTIONS == {<<"2">>, <<"3">>, <<"4">>}
CompressFallback == "An error occurred during compression."

InitialDownscale ==
    [uploadedFile |-> None, imageUrl |-> None, polygons |-> <<>>, scaler |-> 2,
     isProcessing |-> FALSE, resultUrl |-> None, error |-> None]

\* handleFileSelect
downscaleHandleFileSelect(page, file) ==
    [page EXCEPT !.uploadedFile = Some(file), !.imageUrl = Some([blob |-> file]),
                 !.polygons = <<>>, !.resultUrl = None, !.error = None]

\* a consumer that appends what it is handed to what it has
handlePolygonsCompleteAppend(page, newPolygons) ==
    [page EXCEPT !.polygons = page.polygons \o newPolygons]

\* handlePolygonsComplete
handlePolygonsComplete(page, newPolygons) ==
    [page EXCEPT !.polygons = newPolygons]

\* the page after the drawer's onPolygonComplete calls of one handler
RECURSIVE Deliver(_, _)
Deliver(page, calls) ==
    IF calls = <<>> THEN page
    ELSE Deliver(handlePolygonsComplete(page, Head(calls)), Tail(calls))

\* handleScalerChange
handleScalerChange(page, value) == [page EXCEPT !.scaler = ParseInt(value)]

\* JSON.stringify of an array of integers, of arrays of them, ...
RECURSIVE JoinComma(_)
JoinComma(texts) ==
    IF texts = <<>> THEN <<>>
    ELSE IF Len(texts) = 1 THEN texts[1]
    ELSE texts[1] \o <<",">> \o JoinComma(Tail(texts))

JSONArray(texts) == <<"[">> \o JoinComma(texts) \o <<"]">>

JSONPoint(pt) == JSONArray(<<NumberToString(MathRound(pt.x)), NumberToString(MathRound(pt.y))>>)

JSONPolygon(poly) == JSONArray([i \in 1..Len(poly) |-> JSONPoint(poly[i])])

\* JSON.stringify(polygons.map(poly => poly.map(pt => [Math.round(pt.x), Math.round(pt.y)])))
JSONPolygons(polygons) == JSONArray([i \in 1..Len(polygons) |-> JSONPolygon(polygons[i])])

\* a submit control that stays enabled while a request is outstanding
canCompressWhileProcessing(page) == IsSome(page.uploadedFile) /\ Len(page.polygons) > 0

\* canCompress
canCompress(page) ==
    IsSome(page.uploadedFile) /\ Len(page.polygons) > 0 /\ ~page.isProcessing

\* the compress button is rendered
CompressButtonRendered(page) == IsSome(page.imageUrl) /\ Len(page.polygons) > 0

\* a handler that asks for a file only
handleDownscaleFileOnly(page) ==
    IF ~IsSome(page.uploadedFile)
    THEN [page |-> page, sent |-> None]
    ELSE [page |-> [page EXCEPT !.isProcessing = TRUE, !.error = None],
          sent |-> Some([image |-> Get(page.uploadedFile),
                         polygons |-> JSONPolygons(page.polygons),
                         scaler |-> NumberToString(page.scaler)])]

\* handleDownscale up to `await fetch(...)`: the page and the form sent, if any
handleDownscale(page) ==
    IF ~IsSome(page.uploadedFile) \/ Len(page.polygons) = 0
    THEN [page |-> page, sent |-> None]
    ELSE [page |-> [page EXCEPT !.isProcessing = TRUE, !.error = None],
          sent |-> Some([image |-> Get(page.uploadedFile),
                         polygons |-> JSONPolygons(page.polygons),
                         scaler |-> NumberToString(page.scaler)])]

\* handleDownscale from `const url = URL.createObjectURL(blob)` on
handleDownscaleSuccess(page, blob) ==
    [page EXCEPT !.resultUrl = Some([blob |-> blob]), !.isProcessing = FALSE]

\* a catch block that leaves the processing flag set
handleDownscaleCatchNoFinally(page, thrown) ==
    [page |-> [page EXCEPT !.error = Some(IF thrown.isError THEN thrown.message
                                          ELSE UnknownErrorMessage)],
     escaped |-> FALSE]

\* a catch block that shows the generic message whatever was thrown
handleDownscaleCatchGeneric(page, thrown) ==
    [page |-> [page EXCEPT !.error = Some(UnknownErrorMessage), !.isProcessing = FALSE],
     escaped |-> FALSE]

\* handleDownscale's catch and finally blocks: the page, and whether the
\* exception leaves the handler
handleDownscaleCatch(page, thrown) ==
    [page |-> [page EXCEPT !.error = Some(IF thrown.isError THEN thrown.message
                                          ELSE UnknownErrorMessage),
                           !.isProcessing = FALSE],
     escaped |-> FALSE]

-----------------------------------------------------------------------------
(* RestorePage *)

MRS3_MODE_OPTIONS == {<<"-", "1">>, <<"0">>}
RestoreFallback == "An error occurred during restoration."
RestorePkgOnlyMessage == "Only pkg files can be uploaded."

InitialRestore ==
    [uploadedFile |-> None, mrs3Mode |-> -1, isProcessing |-> FALSE,
     resultUrl |-> None, error |-> None]

\* a handler that keeps the result of the file before
restoreHandleFileSelectKeepResult(page, file) ==
    IF EndsWith(file.name, <<".", "p", "k", "g">>)
    THEN [page EXCEPT !.uploadedFile = Some(file), !.error = None]
    ELSE [page EXCEPT !.error = Some(RestorePkgOnlyMessage)]

\* handleFileSelect
restoreHandleFileSelect(page, file) ==
    IF EndsWith(file.name, <<".", "p", "k", "g">>)
    THEN [page EXCEPT !.uploadedFile = Some(file), !.resultUrl = None, !.error = None]
    ELSE [page EXCEPT !.error = Some(RestorePkgOnlyMessage)]

\* a handler whose parse drops the sign
handleMrs3ModeChangeUnsigned(page, value) ==
    [page EXCEPT !.mrs3Mode = Abs(ParseInt(value))]

\* handleMrs3ModeChange
handleMrs3ModeChange(page, value) == [page EXCEPT !.mrs3Mode = ParseInt(value)]

\* canRestore
canRestore(page) == IsSome(page.uploadedFile) /\ ~page.isProcessing

\* the restore button is rendered
RestoreButtonRendered(page) == IsSome(page.uploadedFile)

\* handleRestore up to `await fetch(...)`
handleRestore(page) ==
    IF ~IsSome(page.uploadedFile)
    THEN [page |-> page, sent |-> None]
    ELSE [page |-> [page EXCEPT !.isProcessing = TRUE, !.error = None],
          sent |-> Some([pkg |-> Get(page.uploadedFile),
                         mrs3_mode |-> NumberToString(page.mrs3Mode)])]

\* handleRestore from `const url = URL.createObjectURL(blob)` on
handleRestoreSuccess(page, blob) ==
    [page EXCEPT !.resultUrl = Some([blob |-> blob]), !.isProcessing = FALSE]

\* a catch block that also drops the accepted file
handleRestoreCatchClearFile(page, thrown) ==
    [page |-> [page EXCEPT !.error = Some(IF thrown.isError THEN thrown.message
                                          ELSE UnknownErrorMessage),
                           !.uploadedFile = None,
                           !.isProcessing = FALSE],
     escaped |-> FALSE]

\* handleRestore's catch and finally blocks
handleRestoreCatch(page, thrown) ==
    [page |-> [page EXCEPT !.error = Some(IF thrown.isError THEN thrown.message
                                          ELSE UnknownErrorMessage),
                           !.isProcessing = FALSE],
     escaped |-> FALSE]

-----
(* Actions of the drawer; the drawer is mounted while the compress page     *)
(* holds an image URL.  A callback is invoked in every state of the drawer: *)
(* where its button is not rendered the call changes nothing.               *)

\* the drawer's collections as they were before the last event
Snapshot ==
    [currentPoints |-> currentPoints, completedPolygons |-> completedPolygons]

\* the record of an event: its handler, its argument, the drawer's collections
\* before it, and the clicks made since the last completion or reset that no
\* undo has taken back, in the order they were made
Record(op, arg, clicked) ==
    [op |-> op, arg |-> arg, before |-> Snapshot, clicked |-> clicked]

Clicked == lastEvent.clicked

\* an event that makes and takes back no click
Event(op, arg) == Record(op, arg, Clicked)

\* the clicks that count after a call that may complete a polygon
ClickedUnlessMoved(result) ==
    IF Len(result.completedPolygons) > Len(completedPolygons) THEN <<>> ELSE Clicked

DrawerMounted == route = "/downscale" /\ IsSome(downscale.imageUrl)

ApplyDrawer(result) ==
    /\ currentPoints' = result.currentPoints
    /\ completedPolygons' = result.completedPolygons
    /\ notified' = result.calls
    /\ downscale' = Deliver(downscale, result.calls)

HandleCanvasClick(e, max) ==
    /\ DrawerMounted
    /\ TotalPoints < max
    /\ currentPoints' = handleCanvasClick(currentPoints, e, canvas, rect)
    /\ notified' = <<>>
    /\ lastEvent' = Record("handleCanvasClick", e,
                            Append(Clicked, ClickPoint(e, canvas, rect)))
    /\ UNCHANGED <<route, fileUpload, downscale, restore, completedPolygons,
                   imageLoaded, canvas, rect, requests, unhandled, objectURLs>>

UndoLastPoint ==
    /\ DrawerMounted
    /\ currentPoints' = undoLastPoint(currentPoints)
    /\ notified' = <<>>
    /\ lastEvent' = Record("undoLastPoint", None,
                            SubSeq(Clicked, 1, Len(Clicked) - 1))
    /\ UNCHANGED <<route, fileUpload, downscale, restore, completedPolygons,
                   imageLoaded, canvas, rect, requests, unhandled, objectURLs>>

CompleteCurrentPolygon ==
    /\ DrawerMounted
    /\ ApplyDrawer(completeCurrentPolygon(currentPoints, completedPolygons))
    /\ lastEvent' = Record("completeCurrentPolygon", None,
                            ClickedUnlessMoved(completeCurrentPolygon(currentPoints,
                                                                      completedPolygons)))
    /\ UNCHANGED <<route, fileUpload, restore, imageLoaded, canvas, rect,
                   requests, unhandled, objectURLs>>

HandleKeyPress(key) ==
    /\ DrawerMounted
    /\ ApplyDrawer(handleKeyPress(key, currentPoints, completedPolygons))
    /\ lastEvent' = Record("handleKeyPress", key,
                            ClickedUnlessMoved(handleKeyPress(key, currentPoints,
                                                              completedPolygons)))
    /\ UNCHANGED <<route, fileUpload, restore, imageLoaded, canvas, rect,
                   requests, unhandled, objectURLs>>

ResetAllPolygons ==
    /\ DrawerMounted
    /\ ApplyDrawer(resetAllPolygons(currentPoints, completedPolygons))
    /\ lastEvent' = Record("resetAllPolygons", None, <<>>)
    /\ UNCHANGED <<route, fileUpload, restore, imageLoaded, canvas, rect,
                   requests, unhandled, objectURLs>>

-----------------------------------------------------------------------------
(* The drawer alone: the compress page has accepted an image, the drawer is *)
(* mounted and the image has loaded.                                        *)

InitDrawer ==
    /\ route = "/downscale"
    /\ fileUpload = [error |-> None]
    /\ downscale = [InitialDownscale EXCEPT !.uploadedFile = Some(ImageFile),
                                            !.imageUrl = Some([blob |-> ImageFile])]
    /\ restore = InitialRestore
    /\ currentPoints = <<>>
    /\ completedPolygons = <<>>
    /\ imageLoaded = TRUE
    /\ canvas = NaturalSize
    /\ rect = LoadedRect
    /\ requests = <<>>
    /\ unhandled = FALSE
    /\ objectURLs = createObjectURL(NoObjectURLs, "preview")
    /\ notified = <<>>
    /\ lastEvent = Record("handleImageLoad", None, <<>>)

NextDrawer ==
    \/ \E e \in ClickPositions : HandleCanvasClick(e, MaxTotalPoints)
    \/ UndoLastPoint
    \/ CompleteCurrentPolygon
    \/ \E key \in Keys : HandleKeyPress(key)
    \/ ResetAllPolygons

SpecDrawer == InitDrawer /\ [][NextDrawer]_vars

-----------------------------------------------------------------------------
(* The drawer's canvas under changes of layout: the image has loaded, with  *)
(* one of several natural sizes, and scrolling and resizing move and scale  *)
(* the rectangle the canvas is displayed in.                                *)

\* natural sizes of uploaded images
NaturalSizes == {NaturalSize, [width |-> 4, height |-> 4]}

\* rectangles the layout gives the canvas: as loaded, scrolled, shrunk, grown
CanvasRects ==
    {LoadedRect,
     [left |-> 0, top |-> -1, width |-> 4, height |-> 2],
     [left |-> 1, top |-> 1, width |-> 3, height |-> 1],
     [left |-> 2, top |-> 0, width |-> 8, height |-> 4]}

\* clicks on the canvas: one unit inside its top-left corner, and at its
\* bottom-right corner
CanvasClicks(r) ==
    {[clientX |-> r.left + 1, clientY |-> r.top + 1],
     [clientX |-> r.left + r.width, clientY |-> r.top + r.height]}

\* a scroll or a resize: getBoundingClientRect gives another rectangle
LayoutChange(r) ==
    /\ DrawerMounted
    /\ r # rect
    /\ rect' = r
    /\ notified' = <<>>
    /\ lastEvent' = Event("layout", r)
    /\ UNCHANGED <<route, fileUpload, downscale, restore, currentPoints,
                   completedPolygons, imageLoaded, canvas, requests, unhandled,
                   objectURLs>>

InitCanvas ==
    /\ route = "/downscale"
    /\ fileUpload = [error |-> None]
    /\ downscale = [InitialDownscale EXCEPT !.uploadedFile = Some(ImageFile),
                                            !.imageUrl = Some([blob |-> ImageFile])]
    /\ restore = InitialRestore
    /\ currentPoints = <<>>
    /\ completedPolygons = <<>>
    /\ imageLoaded = TRUE
    /\ canvas \in NaturalSizes
    /\ rect = LoadedRect
    /\ requests = <<>>
    /\ unhandled = FALSE
    /\ objectURLs = createObjectURL(NoObjectURLs, "preview")
    /\ notified = <<>>
    /\ lastEvent = Record("handleImageLoad", None, <<>>)

NextCanvas ==
    \/ \E e \in CanvasClicks(rect) : HandleCanvasClick(e, MaxCanvasPoints)
    \/ \E r \in CanvasRects : LayoutChange(r)
    \/ UndoLastPoint

SpecCanvas == InitCanvas /\ [][NextCanvas]_vars

-----------------------------------------------------------------------------
(* FileUpload's handlers: the error they leave and the file handed to       *)
(* onFileSelect, if any                                                     *)

\* a drop handler that hands over the file without looking at it
handleDropNoValidate(files, accept, maxSize) ==
    IF files = <<>> THEN [error |-> None, selected |-> None]
    ELSE [error |-> None, selected |-> Some(files[1])]

\* handleDrop; files is e.dataTransfer.files
handleDrop(files, accept, maxSize) ==
    IF files = <<>> THEN [error |-> None, selected |-> None]
    ELSE LET validationError == validateFile(files[1], accept, maxSize)
         IN  IF IsSome(validationError)
             THEN [error |-> validationError, selected |-> None]
             ELSE [error |-> None, selected |-> Some(files[1])]

\* a browse handler that refuses a file without saying why
handleFileInputSilent(files, accept, maxSize, error) ==
    IF files = <<>> THEN [error |-> error, selected |-> None]
    ELSE IF IsSome(validateFile(files[1], accept, maxSize))
    THEN [error |-> None, selected |-> None]
    ELSE [error |-> None, selected |-> Some(files[1])]

\* handleFileInput; files is e.target.files
handleFileInput(files, accept, maxSize, error) ==
    IF files = <<>> THEN [error |-> error, selected |-> None]
    ELSE LET validationError == validateFile(files[1], accept, maxSize)
         IN  IF IsSome(validationError)
             THEN [error |-> validationError, selected |-> None]
             ELSE [error |-> None, selected |-> Some(files[1])]

\* the state of the mounted page
Page == IF route = "/downscale" THEN downscale ELSE restore

\* the props the mounted page gives its FileUpload
Accept == IF route = "/restore" THEN PkgAccept ELSE DEFAULT_ACCEPT
MaxSize == IF route = "/restore" THEN 10 * 1024 * 1024 ELSE DEFAULT_MAX_SIZE

\* an upload widget that stays on the compress page beside the drawer
FileUploadAlwaysRendered == route \in {"/downscale", "/restore"}

FileUploadRendered ==
    \/ route = "/downscale" /\ ~IsSome(downscale.imageUrl)
    \/ route = "/restore"

FileLists == {<<>>} \cup {<<f>> : f \in Files}

\* the page's onFileSelect; on the compress page the upload widget gives way
\* to a newly mounted drawer
OnFileSelect(file) ==
    IF route = "/downscale"
    THEN /\ downscale' = downscaleHandleFileSelect(downscale, file)
         /\ currentPoints' = <<>>
         /\ completedPolygons' = <<>>
         /\ imageLoaded' = FALSE
         /\ canvas' = DefaultCanvas
         /\ rect' = DefaultRect
         /\ objectURLs' = createObjectURL(objectURLs, "preview")
         /\ UNCHANGED restore
    ELSE /\ restore' = restoreHandleFileSelect(restore, file)
         /\ UNCHANGED <<downscale, drawerVars, objectURLs>>

ApplyFileUpload(result) ==
    /\ IF IsSome(result.selected)
       THEN /\ OnFileSelect(Get(result.selected))
            /\ fileUpload' = [error |-> IF route = "/downscale" THEN None ELSE result.error]
       ELSE /\ fileUpload' = [error |-> result.error]
            /\ UNCHANGED <<downscale, restore, drawerVars, objectURLs>>
    /\ notified' = <<>>
    /\ UNCHANGED <<route, requests, unhandled>>

HandleDrop(files) ==
    /\ FileUploadRendered
    /\ lastEvent' = Event("handleDrop",
                          [files |-> files, page |-> Page,
                           selected |-> handleDrop(files, Accept, MaxSize).selected])
    /\ ApplyFileUpload(handleDrop(files, Accept, MaxSize))

HandleFileInput(files) ==
    /\ FileUploadRendered
    /\ lastEvent' = Event("handleFileInput",
                          [files |-> files, page |-> Page,
                           selected |-> handleFileInput(files, Accept, MaxSize,
                                                        fileUpload.error).selected])
    /\ ApplyFileUpload(handleFileInput(files, Accept, MaxSize, fileUpload.error))

-----------------------------------------------------------------------------
(* Navigation; a page's state is lost when it is unmounted, and what its     *)
(* outstanding handlers do afterwards reaches no mounted component          *)

Unmounted ==
    /\ fileUpload' = [error |-> None]
    /\ downscale' = InitialDownscale
    /\ restore' = InitialRestore
    /\ currentPoints' = <<>>
    /\ completedPolygons' = <<>>
    /\ imageLoaded' = FALSE
    /\ canvas' = DefaultCanvas
    /\ rect' = DefaultRect
    /\ requests' = <<>>
    /\ notified' = <<>>
    /\ objectURLs' = NoObjectURLs
    /\ UNCHANGED unhandled

\* LandingPage.handleDownscale and handleRestore
LandingNavigate(to) ==
    /\ route = "/"
    /\ route' = to
    /\ lastEvent' = Record("router.push", to, <<>>)
    /\ Unmounted

\* handleGoHome
HandleGoHome ==
    /\ route # "/"
    /\ route' = "/"
    /\ lastEvent' = Record("handleGoHome", None, <<>>)
    /\ Unmounted

-----------------------------------------------------------------------------
(* The drawer's image *)

\* handleImageLoad
HandleImageLoad ==
    /\ DrawerMounted
    /\ ~imageLoaded
    /\ imageLoaded' = TRUE
    /\ canvas' = NaturalSize
    /\ rect' = LoadedRect
    /\ notified' = <<>>
    /\ lastEvent' = Event("handleImageLoad", None)
    /\ UNCHANGED <<route, fileUpload, downscale, restore, currentPoints,
                   completedPolygons, requests, unhandled, objectURLs>>

-----------------------------------------------------------------------------
(* The pages' selectors and submit buttons *)

HandleScalerChange(value) ==
    /\ route = "/downscale"
    /\ CompressButtonRendered(downscale)
    /\ downscale' = handleScalerChange(downscale, value)
    /\ notified' = <<>>
    /\ lastEvent' = Event("handleScalerChange", value)
    /\ UNCHANGED <<route, fileUpload, restore, drawerVars, requests, unhandled, objectURLs>>

HandleMrs3ModeChange(value) ==
    /\ route = "/restore"
    /\ RestoreButtonRendered(restore)
    /\ restore' = handleMrs3ModeChange(restore, value)
    /\ notified' = <<>>
    /\ lastEvent' = Event("handleMrs3ModeChange", value)
    /\ UNCHANGED <<route, fileUpload, downscale, drawerVars, requests, unhandled, objectURLs>>

NewRequest(form) == [pc |-> "fetch", form |-> form, response |-> None]

Submitted(sent) == IF IsSome(sent) THEN Append(requests, NewRequest(Get(sent))) ELSE requests

\* a submission on the compress page.  A rendered button that is disabled
\* dispatches no click; where the button is enabled, and where no button is
\* rendered and handleDownscale is reached by a call, the handler runs
ClickCompress ==
    /\ route = "/downscale"
    /\ Len(requests) < MaxRequests
    /\ IF canCompress(downscale) \/ ~CompressButtonRendered(downscale)
       THEN LET r == handleDownscale(downscale)
            IN  /\ downscale' = r.page
                /\ requests' = Submitted(r.sent)
       ELSE UNCHANGED <<downscale, requests>>
    /\ notified' = <<>>
    /\ lastEvent' = Event("clickCompress", [enabled |-> canCompress(downscale)])
    /\ UNCHANGED <<route, fileUpload, restore, drawerVars, unhandled, objectURLs>>

\* a submission on the restore page
ClickRestore ==
    /\ route = "/restore"
    /\ Len(requests) < MaxRequests
    /\ IF canRestore(restore) \/ ~RestoreButtonRendered(restore)
       THEN LET r == handleRestore(restore)
            IN  /\ restore' = r.page
                /\ requests' = Submitted(r.sent)
       ELSE UNCHANGED <<restore, requests>>
    /\ notified' = <<>>
    /\ lastEvent' = Event("clickRestore", [enabled |-> canRestore(restore)])
    /\ UNCHANGED <<route, fileUpload, downscale, drawerVars, unhandled, objectURLs>>

-----------------------------------------------------------------------------
(* The continuations of a submit handler *)

RemoveAt(seq, i) == SubSeq(seq, 1, i - 1) \o SubSeq(seq, i + 1, Len(seq))

Fallback == IF route = "/downscale" THEN CompressFallback ELSE RestoreFallback

\* the handler's try block ended by a thrown value
Throws(i, thrown) ==
    LET r == IF route = "/downscale" THEN handleDownscaleCatch(downscale, thrown)
             ELSE handleRestoreCatch(restore, thrown)
    IN  /\ IF route = "/downscale"
           THEN downscale' = r.page /\ UNCHANGED restore
           ELSE restore' = r.page /\ UNCHANGED downscale
        /\ unhandled' = (unhandled \/ r.escaped)
        /\ UNCHANGED objectURLs
        /\ requests' = RemoveAt(requests, i)

\* the handler's try block ran to its end
Succeeds(i, blob) ==
    /\ IF route = "/downscale"
       THEN downscale' = handleDownscaleSuccess(downscale, blob) /\ UNCHANGED restore
       ELSE restore' = handleRestoreSuccess(restore, blob) /\ UNCHANGED downscale
    /\ requests' = RemoveAt(requests, i)
    /\ objectURLs' = createObjectURL(objectURLs, "result")
    /\ UNCHANGED unhandled

\* fetch resolves with a response; the handler goes on to read its body
FetchResolves(i, ok, body) ==
    /\ i \in 1..Len(requests)
    /\ requests[i].pc = "fetch"
    /\ requests' = [requests EXCEPT ![i] =
          IF ok
          THEN [pc |-> "blob", form |-> requests[i].form,
                response |-> Some([ok |-> TRUE, body |-> ResultBlob(requests[i].form)])]
          ELSE [pc |-> "json", form |-> requests[i].form,
                response |-> Some([ok |-> FALSE, body |-> body])]]
    /\ notified' = <<>>
    /\ lastEvent' = Event("fetchResolved", [request |-> i, ok |-> ok])
    /\ UNCHANGED <<route, fileUpload, downscale, restore, drawerVars, unhandled, objectURLs>>

\* fetch rejects
FetchRejects(i, thrown) ==
    /\ i \in 1..Len(requests)
    /\ requests[i].pc = "fetch"
    /\ Throws(i, thrown)
    /\ notified' = <<>>
    /\ lastEvent' = Event("settled", [how |-> "fetchRejected", thrown |-> thrown])
    /\ UNCHANGED <<route, fileUpload, drawerVars>>

\* response.json() settles and the handler throws
JsonSettles(i) ==
    /\ i \in 1..Len(requests)
    /\ requests[i].pc = "json"
    /\ LET body == Get(requests[i].response).body
       IN  /\ Throws(i, ThrownOnErrorResponse(body, Fallback))
           /\ lastEvent' = Event("settled", [how |-> "errorResponse", body |-> body,
                                             thrown |-> ThrownOnErrorResponse(body, Fallback)])
    /\ notified' = <<>>
    /\ UNCHANGED <<route, fileUpload, drawerVars>>

\* response.blob() resolves
BlobResolves(i) ==
    /\ i \in 1..Len(requests)
    /\ requests[i].pc = "blob"
    /\ Succeeds(i, Get(requests[i].response).body)
    /\ notified' = <<>>
    /\ lastEvent' = Event("settled", [how |-> "success"])
    /\ UNCHANGED <<route, fileUpload, drawerVars>>

\* response.blob() rejects: the connection broke while the body was read
BlobRejects(i) ==
    /\ i \in 1..Len(requests)
    /\ requests[i].pc = "blob"
    /\ Throws(i, NetworkError)
    /\ notified' = <<>>
    /\ lastEvent' = Event("settled", [how |-> "blobRejected", thrown |-> NetworkError])
    /\ UNCHANGED <<route, fileUpload, drawerVars>>

-----------------------------------------------------------------------------
(* The application, its selectors left at their initial values *)

Init ==
    /\ route = "/"
    /\ fileUpload = [error |-> None]
    /\ downscale = InitialDownscale
    /\ restore = InitialRestore
    /\ currentPoints = <<>>
    /\ completedPolygons = <<>>
    /\ imageLoaded = FALSE
    /\ canvas = DefaultCanvas
    /\ rect = DefaultRect
    /\ requests = <<>>
    /\ unhandled = FALSE
    /\ objectURLs = NoObjectURLs
    /\ notified = <<>>
    /\ lastEvent = Record("mount", None, <<>>)

Next ==
    \/ \E to \in {"/downscale", "/restore"} : LandingNavigate(to)
    \/ HandleGoHome
    \/ \E files \in FileLists : HandleDrop(files)
    \/ \E files \in FileLists : HandleFileInput(files)
    \/ HandleImageLoad
    \/ \E e \in PageClickPositions : HandleCanvasClick(e, MaxPagePoints)
    \/ UndoLastPoint
    \/ CompleteCurrentPolygon
    \/ \E key \in Keys : HandleKeyPress(key)
    \/ ResetAllPolygons
    \/ ClickCompress
    \/ ClickRestore
    \/ \E i \in 1..MaxRequests, ok \in BOOLEAN, body \in ErrorBodies : FetchResolves(i, ok, body)
    \/ \E i \in 1..MaxRequests, thrown \in FetchRejections : FetchRejects(i, thrown)
    \/ \E i \in 1..MaxRequests : JsonSettles(i)
    \/ \E i \in 1..MaxRequests : BlobResolves(i)
    \/ \E i \in 1..MaxRequests : BlobRejects(i)

Spec == Init /\ [][Next]_vars

-----------------------------------------------------------------------------
(* Submission with the selectors: a page that holds an accepted file (the   *)
(* compress page also completed polygons), its selector, its submit button  *)
(* and its requests.  While a request is outstanding the drawer's reset     *)
(* button and the restore page's upload widget stay usable.                 *)

\* the points the two click positions give on the loaded image
PointA == ClickPoint([clientX |-> 3, clientY |-> 2], NaturalSize, LoadedRect)
PointB == ClickPoint([clientX |-> 5, clientY |-> 3], NaturalSize, LoadedRect)

\* collections of polygons drawn before the submission
DrawnPolygons ==
    {<< <<PointA, PointB, PointA>> >>,
     << <<PointB, PointA, PointA>>, <<PointA, PointB, PointB, PointA>> >>}

InitSubmit ==
    /\ route \in {"/downscale", "/restore"}
    /\ fileUpload = [error |-> None]
    /\ currentPoints = <<>>
    /\ IF route = "/downscale"
       THEN /\ completedPolygons \in DrawnPolygons
            /\ downscale = [InitialDownscale EXCEPT !.uploadedFile = Some(ImageFile),
                                                    !.imageUrl = Some([blob |-> ImageFile]),
                                                    !.polygons = completedPolygons]
            /\ restore = InitialRestore
            /\ imageLoaded = TRUE
            /\ canvas = NaturalSize
            /\ rect = LoadedRect
       ELSE /\ completedPolygons = <<>>
            /\ downscale = InitialDownscale
            /\ restore = [InitialRestore EXCEPT !.uploadedFile = Some(PkgFileB)]
            /\ imageLoaded = FALSE
            /\ canvas = DefaultCanvas
            /\ rect = DefaultRect
    /\ requests = <<>>
    /\ unhandled = FALSE
    /\ objectURLs = IF route = "/downscale" THEN createObjectURL(NoObjectURLs, "preview")
                    ELSE NoObjectURLs
    /\ notified = <<>>
    /\ lastEvent = Record("mount", None, <<>>)

NextSubmit ==
    \/ \E value \in SCALER_OPTIONS : HandleScalerChange(value)
    \/ \E value \in MRS3_MODE_OPTIONS : HandleMrs3ModeChange(value)
    \/ ResetAllPolygons
    \/ \E files \in FileLists : HandleDrop(files)
    \/ ClickCompress
    \/ ClickRestore
    \/ \E i \in 1..MaxRequests, ok \in BOOLEAN, body \in ErrorBodies : FetchResolves(i, ok, body)
    \/ \E i \in 1..MaxRequests, thrown \in FetchRejections : FetchRejects(i, thrown)
    \/ \E i \in 1..MaxRequests : JsonSettles(i)
    \/ \E i \in 1..MaxRequests : BlobResolves(i)
    \/ \E i \in 1..MaxRequests : BlobRejects(i)

SpecSubmit == InitSubmit /\ [][NextSubmit]_vars

-----------------------------------------------------------------------------
(* The validator alone: validateFile applied to a file under the props      *)
(* accept and maxSize of a FileUpload                                       *)

\* an accept prop that names another extension
ZipAccept == <<".", "z", "i", "p">>

AcceptPatterns == {DEFAULT_ACCEPT, PkgAccept, ZipAccept}

MaxSizes == {DEFAULT_MAX_SIZE, 2048}

FileNames ==
    {<<"a", ".", "j", "p", "g">>, <<"a", ".", "p", "k", "g">>, <<"a", ".", "t", "x", "t">>,
     <<"a", ".", "p", "k", "g", ".", "t", "x", "t">>, <<"a", ".", "z", "i", "p">>,
     <<"p", "k", "g">>}

FileTypes ==
    {<<"i", "m", "a", "g", "e", "/", "j", "p", "e", "g">>,
     <<"t", "e", "x", "t", "/", "p", "l", "a", "i", "n">>,
     <<>>}

\* the files around the largest size
FilesAround(maxSize) ==
    [name : FileNames, type : FileTypes, size : {maxSize - 1, maxSize, maxSize + 1}]

InitValidate ==
    /\ route = "/"
    /\ fileUpload = [error |-> None]
    /\ downscale = InitialDownscale
    /\ restore = InitialRestore
    /\ currentPoints = <<>>
    /\ completedPolygons = <<>>
    /\ imageLoaded = FALSE
    /\ canvas = DefaultCanvas
    /\ rect = DefaultRect
    /\ requests = <<>>
    /\ unhandled = FALSE
    /\ objectURLs = NoObjectURLs
    /\ notified = <<>>
    /\ \E accept \in AcceptPatterns, maxSize \in MaxSizes :
          \E file \in FilesAround(maxSize) :
              lastEvent = Record("input", [file |-> file, accept |-> accept,
                                           maxSize |-> maxSize], <<>>)

\* validateFile(file) under the props accept and maxSize
ValidateFile ==
    /\ lastEvent.op = "input"
    /\ lastEvent' = Event("validateFile",
          [file |-> lastEvent.arg.file, accept |-> lastEvent.arg.accept,
           maxSize |-> lastEvent.arg.maxSize,
           result |-> validateFile(lastEvent.arg.file, lastEvent.arg.accept,
                                   lastEvent.arg.maxSize)])
    /\ UNCHANGED <<route, fileUpload, downscale, restore, drawerVars, requests,
                   unhandled, objectURLs, notified>>

NextValidate == ValidateFile

SpecValidate == InitValidate /\ [][NextValidate]_vars

-----------------------------------------------------------------------------
(* The FileUpload that takes buttonText and description props, beside the   *)
(* FileUpload of components/file-upload.tsx: both are handed the same file  *)
(* under the same props, by a drop or by the browse dialog.                 *)

\* accept.replace(".", ""): the text without its first "."
RECURSIVE ReplaceFirstDot(_)
ReplaceFirstDot(s) ==
    IF s = <<>> THEN <<>>
    ELSE IF Head(s) = "." THEN Tail(s)
    ELSE <<Head(s)>> \o ReplaceFirstDot(Tail(s))

AnyAccept == <<"*", "/", "*">>

\* the message that names the accept pattern
UnsupportedFormatMessage(accept) == [text |-> "Unsupported file format", accept |-> accept]
VariantTooLargeMessage == "File size too large. Please upload a smaller image."

\* handleDrop of the variant
variantHandleDrop(files, accept, maxSize) ==
    IF files = <<>> THEN [error |-> None, selected |-> None]
    ELSE IF /\ accept # <<>>
            /\ accept # AnyAccept
            /\ ~EndsWith(files[1].name, ReplaceFirstDot(accept))
    THEN [error |-> Some(UnsupportedFormatMessage(accept)), selected |-> None]
    ELSE IF files[1].size > maxSize
    THEN [error |-> Some(VariantTooLargeMessage), selected |-> None]
    ELSE [error |-> None, selected |-> Some(files[1])]

\* handleFileInput of the variant
variantHandleFileInput(files, accept, maxSize, error) ==
    IF files = <<>> THEN [error |-> error, selected |-> None]
    ELSE [error |-> None, selected |-> Some(files[1])]

\* the file is dropped on both
DropOnBoth ==
    /\ lastEvent.op = "input"
    /\ LET file == lastEvent.arg.file
           accept == lastEvent.arg.accept
           maxSize == lastEvent.arg.maxSize
       IN  lastEvent' = Event("drop",
              [file |-> file, accept |-> accept, maxSize |-> maxSize,
               variant |-> variantHandleDrop(<<file>>, accept, maxSize),
               component |-> handleDrop(<<file>>, accept, maxSize)])
    /\ UNCHANGED <<route, fileUpload, downscale, restore, drawerVars, requests,
                   unhandled, objectURLs, notified>>

\* the file is chosen in the browse dialog of both
BrowseOnBoth ==
    /\ lastEvent.op = "input"
    /\ LET file == lastEvent.arg.file
           accept == lastEvent.arg.accept
           maxSize == lastEvent.arg.maxSize
       IN  lastEvent' = Event("browse",
              [file |-> file, accept |-> accept, maxSize |-> maxSize,
               variant |-> variantHandleFileInput(<<file>>, accept, maxSize, None),
               component |-> handleFileInput(<<file>>, accept, maxSize, None)])
    /\ UNCHANGED <<route, fileUpload, downscale, restore, drawerVars, requests,
                   unhandled, objectURLs, notified>>

NextVariant == DropOnBoth \/ BrowseOnBoth

SpecVariant == InitValidate /\ [][NextVariant]_vars

-----------------------------------------------------------------------------
(* The compress page offered two images: navigation to and from the page,   *)
(* the upload widget, the drawer, the submit button and the requests that   *)
(* succeed or are rejected.                                                 *)

UploadFileLists == {<<>>, <<ImageFile>>, <<ImageFileB>>, <<TextFile>>}

NextUpload ==
    \/ LandingNavigate("/downscale")
    \/ HandleGoHome
    \/ \E files \in UploadFileLists : HandleDrop(files)
    \/ \E files \in UploadFileLists : HandleFileInput(files)
    \/ HandleImageLoad
    \/ \E e \in PageClickPositions : HandleCanvasClick(e, MaxPagePoints)
    \/ CompleteCurrentPolygon
    \/ ResetAllPolygons
    \/ ClickCompress
    \/ \E i \in 1..MaxRequests : FetchResolves(i, TRUE, [json |-> "object", detail |-> None])
    \/ \E i \in 1..MaxRequests : FetchRejects(i, NetworkError)
    \/ \E i \in 1..MaxRequests : BlobResolves(i)

SpecUpload == Init /\ [][NextUpload]_vars

-----------------------------------------------------------------------------
(* Properties of the drawer *)

Before == lastEvent.before

\* C1: a call of completeCurrentPolygon moves the current polygon to the end
\* of completedPolygons if and only if currentPoints holds at least 3 points;
\* with fewer than 3 points currentPoints and completedPolygons are unchanged
\* and onPolygonComplete is not called.
C1_CompleteIffThreePoints ==
    lastEvent.op = "completeCurrentPolygon" =>
        IF Len(Before.currentPoints) >= 3
        THEN /\ completedPolygons = Append(Before.completedPolygons, Before.currentPoints)
             /\ currentPoints = <<>>
             /\ Len(notified) = 1
        ELSE /\ completedPolygons = Before.completedPolygons
             /\ currentPoints = Before.currentPoints
             /\ notified = <<>>

\* a completion was refused with 2 points after an earlier one succeeded
C1_Witness ==
    /\ lastEvent.op = "completeCurrentPolygon"
    /\ Len(currentPoints) = 2
    /\ Len(completedPolygons) = 1

\* C2: a handler that changes completedPolygons calls onPolygonComplete
\* exactly once, with the whole new collection, and the compress page's
\* polygons equal the drawer's completedPolygons in every state.
C2_NotifiedFullCollection ==
    /\ completedPolygons # Before.completedPolygons => notified = <<completedPolygons>>
    /\ downscale.polygons = completedPolygons

\* the second polygon was completed and the page holds both
C2_Witness ==
    /\ lastEvent.op \in {"completeCurrentPolygon", "handleKeyPress"}
    /\ Len(Before.completedPolygons) = 1
    /\ Len(downscale.polygons) = 2
    /\ notified = <<completedPolygons>>

\* C3: a completion of a polygon of at least 3 points adds exactly that
\* polygon at the end of the collection, the polygons completed earlier
\* keeping position and content; and nothing but a reset shortens or
\* reorders the collection.
C3_CompletionOrder ==
    /\ (/\ lastEvent.op = "completeCurrentPolygon"
        /\ Len(Before.currentPoints) >= 3)
       => /\ Len(completedPolygons) = Len(Before.completedPolygons) + 1
          /\ completedPolygons[Len(completedPolygons)] = Before.currentPoints
    /\ lastEvent.op # "resetAllPolygons"
       => /\ Len(completedPolygons) >= Len(Before.completedPolygons)
          /\ \A i \in 1..Len(Before.completedPolygons) :
                completedPolygons[i] = Before.completedPolygons[i]

\* a third polygon was completed after two different ones
C3_Witness ==
    /\ lastEvent.op = "completeCurrentPolygon"
    /\ Len(completedPolygons) = 3
    /\ Len(Before.completedPolygons) = 2
    /\ completedPolygons[1] # completedPolygons[2]

\* C4: after resetAllPolygons currentPoints and completedPolygons are empty
\* and the consumer was called with an empty collection.
C4_ResetClearsAll ==
    lastEvent.op = "resetAllPolygons" =>
        /\ currentPoints = <<>>
        /\ completedPolygons = <<>>
        /\ notified = << <<>> >>
        /\ downscale.polygons = <<>>

\* a reset of a drawer that held a completed polygon and a polygon in progress
C4_Witness ==
    /\ lastEvent.op = "resetAllPolygons"
    /\ Before.completedPolygons # <<>>
    /\ Before.currentPoints # <<>>
    /\ currentPoints = <<>>

\* C5: undoLastPoint leaves an empty current polygon empty, and takes exactly
\* the last point off a current polygon of N >= 1 points, the first N-1
\* points keeping their order.
C5_UndoRemovesLast ==
    lastEvent.op = "undoLastPoint" =>
        IF Before.currentPoints = <<>>
        THEN currentPoints = <<>>
        ELSE /\ Len(currentPoints) = Len(Before.currentPoints) - 1
             /\ \A i \in 1..Len(currentPoints) :
                    currentPoints[i] = Before.currentPoints[i]

\* an undo took the last of three points that were not all the same
C5_Witness ==
    /\ lastEvent.op = "undoLastPoint"
    /\ Len(Before.currentPoints) = 3
    /\ Before.currentPoints[1] # Before.currentPoints[3]
    /\ Len(currentPoints) = 2

-----------------------------------------------------------------------------
(* Properties of the pages *)

\* the number of coordinate pairs of each polygon written in a JSON text of
\* the form [[[x,y],...],...]: one count per bracket opened at depth 2, raised
\* by each bracket opened at depth 3
RECURSIVE PairsPerPolygon(_, _, _)
PairsPerPolygon(text, depth, counts) ==
    IF text = <<>> THEN counts
    ELSE IF Head(text) = "["
    THEN PairsPerPolygon(Tail(text), depth + 1,
            IF depth = 1 THEN Append(counts, 0)
            ELSE IF depth = 2 THEN [counts EXCEPT ![Len(counts)] = @ + 1]
            ELSE counts)
    ELSE IF Head(text) = "]" THEN PairsPerPolygon(Tail(text), depth - 1, counts)
    ELSE PairsPerPolygon(Tail(text), depth, counts)

AllAtLeast3(counts) == \A i \in 1..Len(counts) : counts[i] >= 3

\* C6: every polygon of the drawer's completedPolygons and of the compress
\* page's polygons has at least 3 points, and every polygon written in the
\* polygons field of a compress request has at least 3 coordinate pairs.
C6_PolygonsHaveThreePoints ==
    /\ \A i \in 1..Len(completedPolygons) : Len(completedPolygons[i]) >= 3
    /\ \A i \in 1..Len(downscale.polygons) : Len(downscale.polygons[i]) >= 3
    /\ route = "/downscale" =>
          \A r \in 1..Len(requests) :
              /\ PairsPerPolygon(requests[r].form.polygons, 0, <<>>) # <<>>
              /\ AllAtLeast3(PairsPerPolygon(requests[r].form.polygons, 0, <<>>))

\* a compress request carrying one polygon of 4 points is in flight
C6_Witness ==
    /\ route = "/downscale"
    /\ Len(requests) = 1
    /\ PairsPerPolygon(requests[1].form.polygons, 0, <<>>) = <<4>>

\* C7: a page has at most one request in flight, and a click on the submit
\* control while the page is processing changes nothing and sends nothing.
C7_OneRequestInFlight ==
    /\ [](Len(requests) <= 1)
    /\ [][(/\ lastEvent'.op \in {"clickCompress", "clickRestore"}
           /\ Page.isProcessing)
          => /\ requests' = requests
             /\ downscale' = downscale
             /\ restore' = restore]_vars

\* the compress button was clicked while a request was in flight
C7_Witness ==
    /\ lastEvent.op = "clickCompress"
    /\ ~lastEvent.arg.enabled
    /\ downscale.isProcessing
    /\ Len(requests) = 1

\* C8: isProcessing of the mounted page is true exactly while one of its
\* requests is in flight; in particular it is false once a request has
\* settled, whether by a result, an error response or a thrown exception.
C8_ProcessingIffInFlight ==
    /\ Page.isProcessing <=> requests # <<>>
    /\ lastEvent.op = "settled" => ~Page.isProcessing

\* a restore request settled by an error response
C8_Witness ==
    /\ route = "/restore"
    /\ lastEvent.op = "settled"
    /\ lastEvent.arg.how = "errorResponse"
    /\ ~restore.isProcessing
    /\ IsSome(restore.error)

\* the cases of a non-success body that C9 names: a JSON object with a
\* detail string (empty or not) or without a detail, and a body that is not
\* JSON
NamedErrorBody(body) ==
    \/ body.json = "syntaxError"
    \/ body.json = "object" /\ (IsSome(body.detail) => Get(body.detail).isString)

\* C9: after a non-success response the error shown is the body's detail
\* string if the JSON body has a non-empty one, and the page's fallback
\* message if the body has no detail, an empty detail or is not JSON.
C9_DetailOrFallback ==
    (/\ lastEvent.op = "settled"
     /\ lastEvent.arg.how = "errorResponse"
     /\ NamedErrorBody(lastEvent.arg.body)) =>
        LET body == lastEvent.arg.body
            hasDetailString == /\ body.json = "object"
                               /\ IsSome(body.detail)
                               /\ Get(body.detail).text # ""
        IN  Page.error = Some(IF hasDetailString THEN Get(body.detail).text ELSE Fallback)

\* C10 as claimed: after fetch or the reading of the body threw, the error
\* shown is the generic message, not the exception's text.
C10_GenericOnException ==
    (lastEvent.op = "settled" /\ lastEvent.arg.how \in {"fetchRejected", "blobRejected"}) =>
        /\ ~unhandled
        /\ Page.error = Some(UnknownErrorMessage)

\* C10: whatever the try block throws is caught in the handler and leaves
\* it in no state but error: the message of the thrown Error (for a network
\* failure of fetch, the browser's own text), and the generic message only
\* if the thrown value is not an Error.
C10_CaughtAndShown ==
    (lastEvent.op = "settled" /\ lastEvent.arg.how # "success") =>
        /\ ~unhandled
        /\ Page.error = Some(IF lastEvent.arg.thrown.isError
                             THEN lastEvent.arg.thrown.message
                             ELSE UnknownErrorMessage)

\* fetch failed on the network and the page shows the browser's text
C10_Witness ==
    /\ lastEvent.op = "settled"
    /\ lastEvent.arg.how = "fetchRejected"
    /\ lastEvent.arg.thrown = NetworkError
    /\ Page.error = Some("Failed to fetch")
    /\ ~Page.isProcessing

-----------------------------------------------------------------------------
(* Properties of a submission *)

\* the step ends a request by a failure: fetch rejected, the response was an
\* error response, or the body could not be read
FailureStep ==
    /\ lastEvent'.op = "settled"
    /\ lastEvent'.arg.how # "success"

\* what a failure must leave alone: the accepted file, the polygons, the
\* scaler and the mode
FailureFrame ==
    /\ downscale'.uploadedFile = downscale.uploadedFile
    /\ downscale'.polygons = downscale.polygons
    /\ downscale'.scaler = downscale.scaler
    /\ restore'.uploadedFile = restore.uploadedFile
    /\ restore'.mrs3Mode = restore.mrs3Mode

\* C11 as claimed: after a request failed the page is not processing, shows
\* an error, holds the file, polygons and scaler or mode it held, and its
\* submit control is enabled.
C11_SubmittableAfterFailure ==
    [][FailureStep =>
          /\ FailureFrame
          /\ IF route = "/downscale"
             THEN /\ ~downscale'.isProcessing
                  /\ IsSome(downscale'.error)
                  /\ canCompress(downscale')
             ELSE /\ ~restore'.isProcessing
                  /\ IsSome(restore'.error)
                  /\ canRestore(restore')]_vars

\* C11: after a request failed the page is not processing and shows an
\* error, and the failure changed neither the file nor the polygons nor the
\* scaler or mode; the restore page's submit control is enabled, and the
\* compress page's is enabled if and only if the page still holds a polygon
\* (the drawer's reset stays usable while the request is outstanding).
C11_RecoversAfterFailure ==
    [][FailureStep =>
          /\ FailureFrame
          /\ IF route = "/downscale"
             THEN /\ ~downscale'.isProcessing
                  /\ IsSome(downscale'.error)
                  /\ IsSome(downscale'.uploadedFile)
                  /\ canCompress(downscale') <=> downscale.polygons # <<>>
             ELSE /\ ~restore'.isProcessing
                  /\ IsSome(restore'.error)
                  /\ canRestore(restore')]_vars

\* a compress request with factor 3 failed after the polygons were reset
C11_Witness ==
    /\ route = "/downscale"
    /\ lastEvent.op = "settled"
    /\ lastEvent.arg.how # "success"
    /\ downscale.scaler = 3
    /\ downscale.polygons = <<>>
    /\ IsSome(downscale.error)
    /\ ~downscale.isProcessing
    /\ ~canCompress(downscale)

\* the arrays of points of integers written in a JSON text of the form
\* [[[x,y],...],...], read character by character: num holds the characters
\* of the number being read
RECURSIVE ReadPolygons(_, _, _, _)
ReadPolygons(text, depth, num, acc) ==
    LET last == Len(acc)
        withNumber ==
            IF num = <<>> THEN acc
            ELSE [acc EXCEPT ![last] =
                    [@ EXCEPT ![Len(@)] = Append(@, ParseInt(num))]]
    IN  IF text = <<>> THEN acc
        ELSE IF Head(text) = "["
        THEN ReadPolygons(Tail(text), depth + 1, <<>>,
                IF depth = 1 THEN Append(acc, <<>>)
                ELSE IF depth = 2 THEN [acc EXCEPT ![last] = Append(@, <<>>)]
                ELSE acc)
        ELSE IF Head(text) = "]"
        THEN ReadPolygons(Tail(text), depth - 1, <<>>, withNumber)
        ELSE IF Head(text) = ","
        THEN ReadPolygons(Tail(text), depth, <<>>, withNumber)
        ELSE ReadPolygons(Tail(text), depth, Append(num, Head(text)), acc)

\* k is the integer nearest to the number x, a half going up
IsNearestInteger(k, x) ==
    /\ 2 * k * x.d - x.d <= 2 * x.n
    /\ 2 * x.n < 2 * k * x.d + x.d

\* the square (10,10), (100,10), (100,100), (10,100)
ExamplePolygon ==
    <<[x |-> Frac(10, 1), y |-> Frac(10, 1)], [x |-> Frac(100, 1), y |-> Frac(10, 1)],
      [x |-> Frac(100, 1), y |-> Frac(100, 1)], [x |-> Frac(10, 1), y |-> Frac(100, 1)]>>

ExampleForm ==
    Get(handleDownscale([InitialDownscale EXCEPT !.uploadedFile = Some(ImageFile),
                                                 !.polygons = <<ExamplePolygon>>,
                                                 !.scaler = 2]).sent)

ExampleText == <<"[", "[", "[", "1", "0", ",", "1", "0", "]", ",", "[", "1", "0", "0", ",", "1", "0", "]", ",", "[", "1", "0", "0", ",", "1", "0", "0", "]", ",", "[", "1", "0", ",", "1", "0", "0", "]", "]", "]">>

\* C12: the polygons field of a compress request is the JSON text of the
\* page's polygons at submission, polygon by polygon and point by point in
\* order, each point written as the pair of the integers nearest to x and y,
\* and the scaler field is the decimal text of the selected factor; the
\* square (10,10), (100,10), (100,100), (10,100) with factor 2 gives
\* [[[10,10],[100,10],[100,100],[10,100]]] and 2.
C12_PolygonsFieldIsRoundedJSON ==
    /\ (lastEvent.op = "clickCompress" /\ lastEvent.arg.enabled) =>
          LET form == requests[Len(requests)].form
              read == ReadPolygons(form.polygons, 0, <<>>, <<>>)
              polygons == downscale.polygons
          IN  /\ Len(read) = Len(polygons)
              /\ \A i \in 1..Len(polygons) :
                    /\ Len(read[i]) = Len(polygons[i])
                    /\ \A j \in 1..Len(polygons[i]) :
                          /\ Len(read[i][j]) = 2
                          /\ IsNearestInteger(read[i][j][1], polygons[i][j].x)
                          /\ IsNearestInteger(read[i][j][2], polygons[i][j].y)
              /\ form.scaler \in {<<"2">>, <<"3">>, <<"4">>}
              /\ DigitValue(form.scaler[1]) = downscale.scaler
    /\ ExampleForm.polygons = ExampleText
    /\ ExampleForm.scaler = <<"2">>

\* two polygons of points between the pixels were submitted with factor 4
C12_Witness ==
    /\ lastEvent.op = "clickCompress"
    /\ lastEvent.arg.enabled
    /\ Len(downscale.polygons) = 2
    /\ downscale.polygons[1][1] # downscale.polygons[1][2]
    /\ downscale.polygons[1][1].x.d = 2
    /\ requests[1].form.scaler = <<"4">>

\* the step sends a request
Sends == Len(requests') = Len(requests) + 1

\* the step is a submission on the mounted page
SubmissionStep == lastEvent'.op \in {"clickCompress", "clickRestore"}

\* what a submission needs: an accepted file and, on the compress page, a
\* completed polygon
Preconditions ==
    IF route = "/downscale"
    THEN IsSome(downscale.uploadedFile) /\ downscale.polygons # <<>>
    ELSE IsSome(restore.uploadedFile)

\* C13: a page sends one request for each submission made while it holds a
\* file (the compress page: and a polygon) and its button is not disabled by
\* a request in flight, and sends no other request: a submission without the
\* file or without a polygon changes nothing and sends nothing, and no step
\* but a submission sends anything, so a failed request is not sent again.
C13_OneRequestPerSubmission ==
    [][/\ Sends <=> (SubmissionStep /\ Preconditions /\ ~Page.isProcessing)
       /\ Len(requests') <= Len(requests) + 1
       /\ Sends => /\ requests'[Len(requests')].pc = "fetch"
                   /\ SubSeq(requests', 1, Len(requests)) = requests
       /\ (SubmissionStep /\ ~Preconditions)
             => /\ downscale' = downscale
                /\ restore' = restore
                /\ requests' = requests
                /\ fileUpload' = fileUpload]_vars

\* after a failed request and a reset of the polygons, a submission without
\* polygons sent nothing and left the error shown
C13_Witness ==
    /\ lastEvent.op = "clickCompress"
    /\ IsSome(downscale.uploadedFile)
    /\ downscale.polygons = <<>>
    /\ IsSome(downscale.error)
    /\ requests = <<>>

\* C14: the scaler of every compress request is one of the texts 2, 3, 4 and
\* the mrs3_mode of every restore request is one of the texts -1, 0, whatever
\* the selectors were set to before; a selector holds the number its last
\* chosen option names, and 2 and -1 before any choice.
C14_SelectorValuesInRange ==
    /\ \A r \in 1..Len(requests) :
          IF route = "/downscale"
          THEN requests[r].form.scaler \in {<<"2">>, <<"3">>, <<"4">>}
          ELSE requests[r].form.mrs3_mode \in {<<"-", "1">>, <<"0">>}
    /\ downscale.scaler \in {2, 3, 4}
    /\ restore.mrs3Mode \in {-1, 0}
    /\ lastEvent.op = "handleScalerChange" => NumberToString(downscale.scaler) = lastEvent.arg
    /\ lastEvent.op = "handleMrs3ModeChange" => NumberToString(restore.mrs3Mode) = lastEvent.arg
    /\ InitialDownscale.scaler = 2
    /\ InitialRestore.mrs3Mode = -1

\* the mode was changed to 0 and back to -1 while a request sent with 0 is
\* in flight
C14_Witness ==
    /\ route = "/restore"
    /\ lastEvent.op = "handleMrs3ModeChange"
    /\ restore.mrs3Mode = -1
    /\ Len(requests) = 1
    /\ requests[1].form.mrs3_mode = <<"0">>

-----------------------------------------------------------------------------
(* Properties of the validator *)

Validated == lastEvent.op = "validateFile"

\* the declared type begins with image/
HasImageType(file) ==
    /\ Len(file.type) >= 6
    /\ SubSeq(file.type, 1, 6) = <<"i", "m", "a", "g", "e", "/">>

\* the last characters of the name are those of the suffix
HasSuffix(name, suffix) ==
    /\ Len(name) >= Len(suffix)
    /\ SubSeq(name, Len(name) - Len(suffix) + 1, Len(name)) = suffix

\* C15: validateFile checks the type (accept image/*), then the extension
\* (accept .pkg), then the size, and returns the message of the first check
\* that fails; it returns null exactly if none of the three fails.
C15_FirstFailingCheck ==
    Validated =>
        LET a == lastEvent.arg
            typeFails == a.accept = <<"i", "m", "a", "g", "e", "/", "*">> /\ ~HasImageType(a.file)
            extensionFails == a.accept = <<".", "p", "k", "g">> /\ ~HasSuffix(a.file.name, <<".", "p", "k", "g">>)
            sizeFails == a.file.size > a.maxSize
        IN  /\ typeFails => a.result = Some(ImageOnlyMessage)
            /\ (~typeFails /\ extensionFails) => a.result = Some(PkgOnlyMessage)
            /\ (~typeFails /\ ~extensionFails /\ sizeFails) => a.result = Some(TooLargeMessage)
            /\ a.result = None <=> (~typeFails /\ ~extensionFails /\ ~sizeFails)

\* a text file that is also too large is refused for its extension
C15_Witness ==
    /\ Validated
    /\ lastEvent.arg.accept = PkgAccept
    /\ lastEvent.arg.file.name = <<"a", ".", "t", "x", "t">>
    /\ lastEvent.arg.file.size > lastEvent.arg.maxSize
    /\ lastEvent.arg.result = Some(PkgOnlyMessage)

\* C16: under accept .pkg a file whose name ends in .pkg is not refused for
\* its extension, whatever its declared type; under any accept a file of
\* exactly maxSize bytes is not refused for its size, and a file of
\* maxSize + 1 bytes is refused (for its size, unless an earlier check fails).
C16_PkgNameAndSizeBoundary ==
    Validated =>
        LET a == lastEvent.arg
        IN  /\ (a.accept = <<".", "p", "k", "g">> /\ HasSuffix(a.file.name, <<".", "p", "k", "g">>))
                  => /\ a.result # Some(PkgOnlyMessage)
                     /\ a.file.size <= a.maxSize => a.result = None
            /\ a.file.size = a.maxSize => a.result # Some(TooLargeMessage)
            /\ a.file.size = a.maxSize + 1
                  => /\ a.result # None
                     /\ a.result \in {Some(TooLargeMessage), Some(ImageOnlyMessage),
                                      Some(PkgOnlyMessage)}
                     /\ (a.accept = <<".", "p", "k", "g">> /\ HasSuffix(a.file.name, <<".", "p", "k", "g">>))
                           => a.result = Some(TooLargeMessage)

\* a.pkg declared as text/plain, of exactly maxSize bytes, is accepted
C16_Witness ==
    /\ Validated
    /\ lastEvent.arg.accept = PkgAccept
    /\ lastEvent.arg.file.name = <<"a", ".", "p", "k", "g">>
    /\ lastEvent.arg.file.type = <<"t", "e", "x", "t", "/", "p", "l", "a", "i", "n">>
    /\ lastEvent.arg.file.size = lastEvent.arg.maxSize
    /\ lastEvent.arg.result = None

\* C17: under an accept prop that names an extension (a dot and letters),
\* whichever it is, a file whose name does not end with that extension is
\* refused.
C17_EveryExtensionChecked ==
    (/\ Validated
     /\ Head(lastEvent.arg.accept) = "."
     /\ ~HasSuffix(lastEvent.arg.file.name, lastEvent.arg.accept))
        => lastEvent.arg.result # None

-----------------------------------------------------------------------------
(* Properties of an upload *)

\* the last event gave the mounted FileUpload a file, by drop or by browsing
Uploaded ==
    /\ lastEvent.op \in {"handleDrop", "handleFileInput"}
    /\ lastEvent.arg.files # <<>>

UploadedFile == lastEvent.arg.files[1]

\* what validateFile says of that file under the page's props
Verdict == validateFile(UploadedFile, Accept, MaxSize)

\* C18: FileUpload hands a dropped or browsed file to onFileSelect if and
\* only if validateFile returns null for it; if validateFile returns a
\* message the component shows it, onFileSelect is not called and the page
\* holds the accepted file it held before.
C18_SelectIffValid ==
    Uploaded =>
        /\ lastEvent.arg.selected = Some(UploadedFile) <=> Verdict = None
        /\ lastEvent.arg.selected = None <=> Verdict # None
        /\ Verdict = None => Page.uploadedFile = Some(UploadedFile)
        /\ Verdict # None =>
              /\ fileUpload.error = Verdict
              /\ Page.uploadedFile = lastEvent.arg.page.uploadedFile

\* a text file was browsed on the restore page, which keeps the package it
\* had accepted
C18_Witness ==
    /\ route = "/restore"
    /\ lastEvent.op = "handleFileInput"
    /\ lastEvent.arg.files = <<TextFile>>
    /\ lastEvent.arg.selected = None
    /\ fileUpload.error = Some(PkgOnlyMessage)
    /\ restore.uploadedFile = Some(PkgFileA)

\* C19 as claimed: when a file fails validation the page holds no accepted
\* file and no result any more, and the validation message is shown.
C19_FailureClearsPage ==
    (Uploaded /\ Verdict # None) =>
        /\ Page.uploadedFile = None
        /\ Page.resultUrl = None
        /\ fileUpload.error = Verdict \/ Page.error = Verdict

\* C19: when a file fails validation the upload component shows the
\* validation message and the page is left exactly as it was: the file
\* accepted before, the result, the page's own error and the polygons stay.
C19_FailureLeavesPage ==
    (Uploaded /\ Verdict # None) =>
        /\ fileUpload.error = Verdict
        /\ Page = lastEvent.arg.page
        /\ completedPolygons = Before.completedPolygons
        /\ currentPoints = Before.currentPoints

\* a text file was dropped on a restore page that shows the result of an
\* accepted package
C19_Witness ==
    /\ route = "/restore"
    /\ lastEvent.op = "handleDrop"
    /\ lastEvent.arg.files = <<TextFile>>
    /\ fileUpload.error = Some(PkgOnlyMessage)
    /\ IsSome(restore.uploadedFile)
    /\ IsSome(restore.resultUrl)

\* C20: when a file passes validation the page holds it as its accepted
\* file; the compress page then has no polygons, no result and no error and
\* a preview URL made for this file, and the restore page has no result and
\* no error.
C20_AcceptClearsDownstream ==
    (Uploaded /\ Verdict = None) =>
        IF route = "/downscale"
        THEN /\ downscale.uploadedFile = Some(UploadedFile)
             /\ downscale.polygons = <<>>
             /\ completedPolygons = <<>>
             /\ downscale.resultUrl = None
             /\ downscale.error = None
             /\ downscale.imageUrl = Some([blob |-> UploadedFile])
             /\ downscale.imageUrl # lastEvent.arg.page.imageUrl
        ELSE /\ restore.uploadedFile = Some(UploadedFile)
             /\ restore.resultUrl = None
             /\ restore.error = None

\* a package was accepted by a restore page that showed the result of
\* another one
C20_Witness ==
    /\ route = "/restore"
    /\ Uploaded
    /\ lastEvent.arg.selected = Some(PkgFileB)
    /\ lastEvent.arg.page.uploadedFile = Some(PkgFileA)
    /\ IsSome(lastEvent.arg.page.resultUrl)
    /\ restore.uploadedFile = Some(PkgFileB)
    /\ restore.resultUrl = None

\* a file with a package name of at most the restore page's maxSize
\* (10 * 1024 * 1024 bytes)
ValidPackage(file) ==
    /\ HasSuffix(file.name, <<".", "p", "k", "g">>)
    /\ file.size <= 10485760

\* C21: the file the restore page holds as accepted, if any, has a name
\* ending in .pkg and at most maxSize bytes, and so has the pkg field of
\* every restore request.
C21_AcceptedPackageIsValid ==
    /\ IsSome(restore.uploadedFile) => ValidPackage(Get(restore.uploadedFile))
    /\ route = "/restore" =>
          \A r \in 1..Len(requests) : ValidPackage(requests[r].form.pkg)

\* a restore request carrying a package of exactly maxSize bytes is in
\* flight after a larger package was refused
C21_Witness ==
    /\ route = "/restore"
    /\ Len(requests) = 1
    /\ requests[1].form.pkg = PkgFileA
    /\ lastEvent.op = "handleDrop"
    /\ lastEvent.arg.files = <<BigPkgFile>>
    /\ restore.uploadedFile = Some(PkgFileA)

\* C22: a page holds at most one live preview URL and at most one live
\* result URL: the URL that a new one replaces has been released.
C22_ReplacedURLsReleased ==
    /\ objectURLs.preview # "several"
    /\ objectURLs.result # "several"

-----------------------------------------------------------------------------
(* Properties of the canvas *)

\* the number x is the quotient num / den
IsQuotient(x, num, den) ==
    /\ x.d > 0
    /\ x.n * den = num * x.d

\* C23: a click at the offset (dx, dy) from the top-left corner of a canvas
\* of resolution (W, H) displayed with size (w, h) adds the point
\* (dx * W / w, dy * H / h), the rectangle being the one the canvas has at
\* the click.
C23_ClickScaledByCurrentRect ==
    lastEvent.op = "handleCanvasClick" =>
        LET e == lastEvent.arg
            pt == currentPoints[Len(currentPoints)]
        IN  /\ rect.width > 0 /\ rect.height > 0
            /\ IsQuotient(pt.x, (e.clientX - rect.left) * canvas.width, rect.width)
            /\ IsQuotient(pt.y, (e.clientY - rect.top) * canvas.height, rect.height)

\* a click on a canvas that was scrolled and shrunk after the image loaded
\* gave a point between the pixels
C23_Witness ==
    /\ lastEvent.op = "handleCanvasClick"
    /\ rect = [left |-> 1, top |-> 1, width |-> 3, height |-> 1]
    /\ canvas = [width |-> 4, height |-> 4]
    /\ currentPoints[Len(currentPoints)] =
          [x |-> [n |-> 4, d |-> 3], y |-> [n |-> 4, d |-> 1]]

-----------------------------------------------------------------------------
(* Properties of the drawer's bookkeeping *)

\* C26: the polygon a completion moves into the completed collection is the
\* sequence of the points clicked since the previous completion or reset,
\* without those an undo removed, in the order of the clicks.
C26_CompletedPolygonIsTheClicks ==
    [][Len(completedPolygons') = Len(completedPolygons) + 1 =>
          /\ completedPolygons'[Len(completedPolygons')] = Clicked
          /\ SubSeq(completedPolygons', 1, Len(completedPolygons)) = completedPolygons
          /\ currentPoints' = <<>>]_vars

\* two polygons were completed, the second after clicks, an undo and a further
\* click
C26_Witness ==
    /\ Len(completedPolygons) = 2
    /\ lastEvent.op \in {"completeCurrentPolygon", "handleKeyPress"}
    /\ Len(Before.currentPoints) = 3
    /\ completedPolygons[2] = Before.currentPoints
    /\ completedPolygons[2][2] # completedPolygons[2][3]
    /\ completedPolygons[1] # completedPolygons[2]
    /\ Clicked = <<>>

\* C29: pressing Enter does what the complete button does: with at least 3
\* current points one polygon is completed (the completed count grows by one,
\* the current polygon becomes empty, the consumer is notified once); with
\* fewer than 3 points, and for every other key, the drawer's state is
\* unchanged and no notification is sent.
C29_EnterIsTheCompleteButton ==
    lastEvent.op = "handleKeyPress" =>
        LET button == completeCurrentPolygon(Before.currentPoints,
                                             Before.completedPolygons)
        IN  IF lastEvent.arg = "Enter"
            THEN /\ currentPoints = button.currentPoints
                 /\ completedPolygons = button.completedPolygons
                 /\ notified = button.calls
                 /\ IF Len(Before.currentPoints) >= 3
                    THEN /\ Len(completedPolygons) = Len(Before.completedPolygons) + 1
                         /\ currentPoints = <<>>
                         /\ Len(notified) = 1
                    ELSE /\ completedPolygons = Before.completedPolygons
                         /\ currentPoints = Before.currentPoints
                         /\ notified = <<>>
            ELSE /\ completedPolygons = Before.completedPolygons
                 /\ currentPoints = Before.currentPoints
                 /\ notified = <<>>

\* Enter completed a second polygon, of four points
C29_Witness ==
    /\ lastEvent.op = "handleKeyPress"
    /\ lastEvent.arg = "Enter"
    /\ Len(Before.currentPoints) = 4
    /\ Len(Before.completedPolygons) = 1
    /\ Len(completedPolygons) = 2
    /\ notified = <<completedPolygons>>

\* the sequence s without its last element
Front(s) == SubSeq(s, 1, Len(s) - 1)

\* C30: a click on the canvas appends exactly one point at the end of the
\* current polygon and an undo removes only from the current polygon; neither
\* changes completedPolygons nor notifies the consumer; a completed polygon
\* is never modified, and the number of completed polygons decreases only by
\* a reset.
C30_ClickAndUndoFrame ==
    /\ lastEvent.op = "handleCanvasClick"
       => /\ Len(currentPoints) = Len(Before.currentPoints) + 1
          /\ Front(currentPoints) = Before.currentPoints
          /\ currentPoints[Len(currentPoints)] = ClickPoint(lastEvent.arg, canvas, rect)
          /\ completedPolygons = Before.completedPolygons
          /\ notified = <<>>
    /\ lastEvent.op = "undoLastPoint"
       => /\ currentPoints = Front(Before.currentPoints)
          /\ completedPolygons = Before.completedPolygons
          /\ notified = <<>>
    /\ lastEvent.op # "resetAllPolygons"
       => /\ Len(completedPolygons) >= Len(Before.completedPolygons)
          /\ SubSeq(completedPolygons, 1, Len(Before.completedPolygons))
                = Before.completedPolygons

\* a click added a point, different from the first one, to a polygon being
\* drawn while a completed polygon existed
C30_Witness ==
    /\ lastEvent.op = "handleCanvasClick"
    /\ Len(currentPoints) = 3
    /\ currentPoints[3] # currentPoints[1]
    /\ Len(completedPolygons) = 2

-----------------------------------------------------------------------------
(* Properties of the pages' results *)

\* the form of the request whose response made the result
ResultForm(page) == Get(page.resultUrl).blob.resultOf

\* C24: on the restore page a result that is present was made by a request
\* that carried the file accepted now.
C24_ResultIsOfAcceptedFile ==
    (route = "/restore" /\ IsSome(restore.resultUrl))
        => restore.uploadedFile = Some(ResultForm(restore).pkg)

\* C25: on neither page are a result and a request error present together.
C25_ResultAndErrorExclusive ==
    /\ ~(IsSome(downscale.resultUrl) /\ IsSome(downscale.error))
    /\ ~(IsSome(restore.resultUrl) /\ IsSome(restore.error))

\* C27: a point is stored only after the image-load handler has set the
\* canvas to the image's natural resolution.
C27_PointsOnlyAfterImageLoad ==
    (DrawerMounted /\ TotalPoints > 0) => (imageLoaded /\ canvas = NaturalSize)

\* C28: a result that is displayed is shown with the parameters its request
\* was sent with: the polygons and the scaler on the compress page, the mode
\* on the restore page.
C28_ResultShownWithItsParameters ==
    /\ (route = "/downscale" /\ IsSome(downscale.resultUrl))
         => /\ ResultForm(downscale).scaler = NumberToString(downscale.scaler)
            /\ ResultForm(downscale).polygons = JSONPolygons(downscale.polygons)
    /\ (route = "/restore" /\ IsSome(restore.resultUrl))
         => ResultForm(restore).mrs3_mode = NumberToString(restore.mrs3Mode)

-----------------------------------------------------------------------------
(* Properties of the accepted file *)

\* C31: on the compress page the accepted file is written once: while the
\* page stays mounted with a file accepted, uploadedFile and imageUrl do not
\* change and no further preview URL is made; the image shown to the drawer
\* is the accepted file's, and the drawer and the page hold no polygon when
\* a file is accepted, so every polygon was drawn on that image.
C31_AcceptedImageWrittenOnce ==
    [][/\ (route = "/downscale" /\ route' = "/downscale"
           /\ IsSome(downscale.uploadedFile))
          => /\ downscale'.uploadedFile = downscale.uploadedFile
             /\ downscale'.imageUrl = downscale.imageUrl
             /\ objectURLs'.preview = objectURLs.preview
       /\ (route' = "/downscale" /\ IsSome(downscale'.imageUrl))
          => downscale'.uploadedFile = Some(Get(downscale'.imageUrl).blob)
       /\ (route' = "/downscale" /\ downscale'.uploadedFile # downscale.uploadedFile)
          => /\ currentPoints' = <<>>
             /\ completedPolygons' = <<>>
             /\ downscale'.polygons = <<>>]_vars

\* the second image was accepted, a polygon was drawn on it and its result
\* arrived, the upload widget being gone
C31_Witness ==
    /\ route = "/downscale"
    /\ downscale.uploadedFile = Some(ImageFileB)
    /\ downscale.imageUrl = Some([blob |-> ImageFileB])
    /\ Len(downscale.polygons) = 1
    /\ IsSome(downscale.resultUrl)
    /\ ~FileUploadRendered

\* C32: the FileUpload with buttonText and description props accepts a file,
\* dropped or browsed, exactly when the FileUpload of
\* components/file-upload.tsx does.
C32_VariantAcceptsLikeComponent ==
    lastEvent.op \in {"drop", "browse"} =>
        IsSome(lastEvent.arg.variant.selected) = IsSome(lastEvent.arg.component.selected)

\* C33: on the restore page every file FileUpload passes to handleFileSelect
\* has a name ending in ".pkg", so the branch of handleFileSelect that
\* refuses a file is never taken and its message is never the page's error.
C33_PageRejectionUnreachable ==
    /\ restore.error # Some(RestorePkgOnlyMessage)
    /\ (/\ route = "/restore"
        /\ lastEvent.op \in {"handleDrop", "handleFileInput"}
        /\ IsSome(lastEvent.arg.selected))
       => /\ EndsWith(Get(lastEvent.arg.selected).name, <<".", "p", "k", "g">>)
          /\ restore = restoreHandleFileSelect(lastEvent.arg.page,
                                               Get(lastEvent.arg.selected))
          /\ restore.uploadedFile = lastEvent.arg.selected

\* a second package was browsed and handed to handleFileSelect, which took
\* it in place of the first
C33_Witness ==
    /\ route = "/restore"
    /\ lastEvent.op = "handleFileInput"
    /\ lastEvent.arg.files = <<PkgFileB>>
    /\ lastEvent.arg.selected = Some(PkgFileB)
    /\ lastEvent.arg.page.uploadedFile = Some(PkgFileA)
    /\ restore.uploadedFile = Some(PkgFileB)
    /\ restore.error = None

====
